---- MODULE Spec2Model ----
(***************************************************************************)
(* Vonage video server (src/server.py) and the Streamlit front end's       *)
(* "Create New Meeting" flow (src/app.py).                                  *)
(*                                                                          *)
(* The server is one uvicorn process. Module import runs the start-up       *)
(* sequence (load configuration, build the platform client, create the      *)
(* default session); afterwards every request handler is an `async def`     *)
(* without an await, so a handler runs to completion on the event loop:     *)
(* concurrency is the set of requests that have arrived and are handled in  *)
(* any order.                                                               *)
(***************************************************************************)
EXTENDS Integers, FiniteSets, Sequences, TLC

\* ------------------------------------------------------------------ bounds
MaxSessions == 2
MaxInflight == 2
\* remote connections in the meeting
MaxRemotes == 2
\* screenPublisherDiv elements the page may accumulate
MaxScreenDivs == 2
\* screen-share callbacks that may be outstanding at once
MaxPending == 2
\* chat signals that may be on their way at once
MaxSignals == 2
\* entries the chat transcript may hold
MaxMessages == 2
\* filter calls that may be outstanding at once
MaxCalls == 2

\* ------------------------------------------------------------ Python values
None == "None"
EmptyStr == ""

Truthy(x) == x \notin {None, EmptyStr}

\* a value accepted by a pydantic field declared `str`
IsStr(x) == x # None

\* str(b) of a Python bool, as a typed value
PyStr(b) == [type |-> "str", val |-> IF b THEN "True" ELSE "False"]

StrVal(s) == [type |-> "str", val |-> s]

\* --------------------------------------------------------------- start-up
EnvVars ==
    {"VONAGE_API_KEY", "VONAGE_API_SECRET", "VONAGE_APPLICATION_ID",
     "VONAGE_PRIVATE_KEY_PATH"}

\* what os.getenv can return for a variable: unset, set to "", set to a value
EnvValues == {None, EmptyStr, "set"}

VARIABLES
    env,                  \* the process environment after load_dotenv()
    phase,                \* position in the module's start-up sequence
    vonage_config,        \* server.py: vonage_config (VONAGE_* globals)
    vonage_video_client,  \* server.py: vonage_video_client
    DEFAULT_SESSION_ID,   \* server.py: DEFAULT_SESSION_ID
    sessions_created,     \* platform: number of sessions created so far
    first_created,        \* id of the first successfully created session
    default_writes,       \* number of request handlers that wrote the pointer
    pending,              \* requests that arrived and are not handled yet
    last_response,        \* the response of the handler that ran last
    client_pc,            \* app.py: position in the "Start Meeting" click
    client_inbox,         \* app.py: the response the blocked client receives
    session_state,        \* app.py: st.session_state
    page,                 \* app.py (script): the DOM and the script's globals
    conn,                 \* platform: state of session.connect
    camera_published,     \* platform: session.publish(publisher) was called
    screen_pending,       \* platform: screen-share callbacks not yet delivered
    screen_live,          \* platform: the screen stream is published
    streams,              \* platform: remote streams created and not destroyed
    last_event,           \* the script handler that ran last
    before,               \* the page as that handler found it
    pair,                 \* progress of a start/stop pair of toggles
    load_pc,              \* next statement of the window 'load' listener
    signals,              \* platform: chat signals being sent and relayed
    filter                \* platform: the camera's video filter and its calls

roomVars ==
    <<page, conn, camera_published, screen_pending, screen_live, streams,
      last_event, before, pair, load_pc, signals, filter>>

vars ==
    <<env, phase, vonage_config, vonage_video_client, DEFAULT_SESSION_ID,
      sessions_created, first_created, default_writes, pending, last_response,
      client_pc, client_inbox, session_state, roomVars>>

serverVars ==
    <<env, phase, vonage_config, vonage_video_client, DEFAULT_SESSION_ID,
      sessions_created, first_created, default_writes>>

clientVars == <<client_pc, client_inbox, session_state>>

\* the platform hands out a fresh id for every session it creates
SessionIdOf(n) == ToString(n)

PlatformSessions == {SessionIdOf(n) : n \in 1..sessions_created}

\* an id no platform session has
Fabricated == "fabricated"

NoConfig == [k \in EnvVars |-> None]

VONAGE_API_KEY == vonage_config["VONAGE_API_KEY"]
VONAGE_APPLICATION_ID == vonage_config["VONAGE_APPLICATION_ID"]
VONAGE_PRIVATE_KEY_PATH == vonage_config["VONAGE_PRIVATE_KEY_PATH"]

\* missing_vars = [key for key, value in required_env_vars.items() if not value]
MissingVarsNoneOnly(e) == {k \in EnvVars : e[k] = None}
MissingVars(e) == {k \in EnvVars : ~Truthy(e[k])}

\* client.video.create_session inside try/except: the id, or None on failure
create_default_video_session(outcome, newId) ==
    IF outcome = "ok" THEN newId ELSE None

PlatformOutcomes == {"ok", "error"}

\* the platform creates a session or fails (timeout, transport, rejection)
PlatformCreateOutcomes ==
    IF sessions_created < MaxSessions THEN PlatformOutcomes ELSE {"error"}

\* --------------------------------------------------- requests and responses
Usernames == {"Alice"}

\* the role every caller in app.py leaves to the endpoint's default
Roles == {"publisher"}

\* a request: the endpoint, its parameters, and who waits for the answer
Request(kind, session_id, role, username, owner) ==
    [kind |-> kind, session_id |-> session_id, role |-> role,
     username |-> username, owner |-> owner, media_mode |-> None]

\* the media modes of the platform's SessionOptions
MediaModes == {"routed", "relayed"}

\* POST /api/sessions/create with a body {"media_mode": ...}, or with none
CreateRequest(media_mode, owner) ==
    [Request("create", None, None, None, owner)
         EXCEPT !.media_mode = media_mode]

NoRequest == Request("none", None, None, None, None)

NoToken == [session_id |-> None, role |-> None, data |-> None]

NoInfo == [k \in {"none"} |-> StrVal(None)]

\* what a handler returns or raises: the HTTP status, the response model's
\* fields (or the HTTPException's detail) and the platform calls it made
NoReply ==
    [status |-> 0, session_id |-> None, api_key |-> None,
     application_id |-> None, token |-> NoToken, username |-> None,
     role |-> None, detail |-> None, health_status |-> None,
     environment_info |-> NoInfo, calls |-> 0, media_mode |-> None]

Reply(fields) == fields @@ NoReply

HTTPException(status_code, detail, calls) ==
    Reply([status |-> status_code, detail |-> detail, calls |-> calls])

\* a reply with the request it answers and what the handler met: the
\* platform's outcome, the pointer before it ran, whether the app was in a
\* meeting
Response(req, reply, outcome, default_before, in_meeting) ==
    [req |-> req, reply |-> reply, platform_ok |-> (outcome = "ok"),
     default_before |-> default_before, in_meeting |-> in_meeting]

NoResponse == Response(NoRequest, NoReply, "none", None, FALSE)

\* ---------------------------------------------------- POST /api/sessions/create
\* VideoSessionResponse: session_id: str, api_key: str, application_id: str
AcceptAnyVideoSessionResponse(session_id, api_key, application_id) == TRUE
ValidVideoSessionResponse(session_id, api_key, application_id) ==
    IsStr(session_id) /\ IsStr(api_key) /\ IsStr(application_id)

\* SessionOptions(media_mode="routed"): the mode create_default_video_session
\* asks the platform for; the handler has no parameter for the request body
SessionOptionsMediaMode == "routed"

create_new_video_session(new_session_id) ==
    IF ValidVideoSessionResponse(new_session_id, VONAGE_API_KEY,
                                 VONAGE_APPLICATION_ID)
    THEN Reply([status |-> 200, session_id |-> new_session_id,
                api_key |-> VONAGE_API_KEY,
                application_id |-> VONAGE_APPLICATION_ID, calls |-> 1,
                media_mode |-> SessionOptionsMediaMode])
    ELSE HTTPException(500, "Session creation failed", 1)

\* the handler's effect on DEFAULT_SESSION_ID: it never assigns the global
DefaultOverwrittenByCreate(default, new_session_id) ==
    IF IsStr(new_session_id) THEN new_session_id ELSE default
DefaultAfterCreate(default, new_session_id) == default

\* ---------------------------------------------------- GET /api/sessions/{id}
\* generate_client_token for a session id: the platform accepts only its own
\* sessions, and may fail for one of those too
PlatformTokenOutcomes(session_id) ==
    IF session_id \in PlatformSessions THEN PlatformOutcomes ELSE {"error"}

get_video_session_info_500(session_id, outcome) ==
    IF outcome = "ok"
    THEN Reply([status |-> 200, session_id |-> session_id,
                api_key |-> VONAGE_API_KEY,
                application_id |-> VONAGE_APPLICATION_ID, calls |-> 1])
    ELSE HTTPException(500, "Session validation failed", 1)
get_video_session_info(session_id, outcome) ==
    IF outcome = "ok"
    THEN Reply([status |-> 200, session_id |-> session_id,
                api_key |-> VONAGE_API_KEY,
                application_id |-> VONAGE_APPLICATION_ID, calls |-> 1])
    ELSE HTTPException(404, "Video session not found or invalid", 1)

\* ---------------------------------------------------- GET /api/tokens/generate
\* target_session_id = session_id or DEFAULT_SESSION_ID
TargetWithoutFallback(session_id, default) == session_id
TargetSessionId(session_id, default) ==
    IF Truthy(session_id) THEN session_id ELSE default

\* the try block: TokenOptions, generate_client_token, UserTokenResponse
MintToken(target_session_id, role, username, outcome) ==
    IF outcome = "ok"
    THEN Reply([status |-> 200,
                token |-> [session_id |-> target_session_id, role |-> role,
                           data |-> username],
                username |-> username, session_id |-> target_session_id,
                role |-> role, calls |-> 1])
    ELSE HTTPException(500, "Token generation failed", 1)

generate_user_access_token_unguarded(session_id, role, username, default, outcome) ==
    MintToken(TargetSessionId(session_id, default), role, username, outcome)
generate_user_access_token(session_id, role, username, default, outcome) ==
    LET target_session_id == TargetSessionId(session_id, default)
    IN  IF ~Truthy(target_session_id)
        THEN HTTPException(500, "No video session available", 0)
        ELSE MintToken(target_session_id, role, username, outcome)

\* ---------------------------------------------------- GET /api/health
YesNo(b) == StrVal(IF b THEN "Yes" ELSE "No")

\* "private_key_exists": str(os.path.exists(VONAGE_PRIVATE_KEY_PATH))
PrivateKeyExistsUnconverted(exists) ==
    [type |-> "bool", val |-> IF exists THEN "True" ELSE "False"]
PrivateKeyExistsField(exists) == PyStr(exists)

EnvironmentInfo(exists) ==
    [api_key_configured |-> YesNo(Truthy(VONAGE_API_KEY)),
     application_id_configured |-> YesNo(Truthy(VONAGE_APPLICATION_ID)),
     private_key_exists |-> PrivateKeyExistsField(exists),
     default_session_available |-> YesNo(Truthy(DEFAULT_SESSION_ID)),
     vonage_client_status |->
         StrVal(IF Truthy(vonage_video_client) THEN "Initialized" ELSE "Failed")]

\* ApplicationHealthResponse: environment_info: Dict[str, Optional[str]]
ValidEnvironmentInfo(info) ==
    \A k \in DOMAIN info : info[k].type \in {"str", "none"}

get_application_health_status(exists) ==
    LET environment_info == EnvironmentInfo(exists)
    IN  IF ValidEnvironmentInfo(environment_info)
        THEN Reply([status |-> 200, health_status |-> "healthy",
                    environment_info |-> environment_info])
        ELSE HTTPException(500, "Health check failed", 0)

\* ------------------------------------------ app.py: the meeting page (script)
\* a remote stream: the connection that publishes it and its video source;
\* event.stream.streamId identifies it
Remotes == 1..MaxRemotes

Streams == Remotes \X {"camera", "screen"}

ConnectionOf(stream) == stream[1]

\* the DOM as the HTML and its stylesheet give it, and the script's globals:
\* #main-publisher shown with #publisher in it, #screen-share-container and
\* #mini-self-video not displayed, the placeholder in #subscribers
InitialPage ==
    [screenPublisher |-> None,
     btn_disabled |-> FALSE,
     container_display |-> "none",
     main_publisher_display |-> "block",
     mini_self_video_display |-> "none",
     publisher_parent |-> "main-publisher",
     screen_divs |-> 0,
     screen_status |-> "Screen: Ready",
     subscribers |-> << >>,
     placeholder |-> TRUE,
     publisher |-> None,
     connection_error |-> FALSE,
     status |-> <<"Filter: Ready">>,
     messages |-> << >>,
     chat_input |-> << >>]

\* the ids the HTML gives to elements
ElementIds ==
    {"main-publisher", "publisher", "screen-share-container",
     "mini-self-video", "mini-publisher", "subscribers",
     "participants-placeholder", "statusMessage", "screenStatusMessage",
     "applyBlurBtn", "applyImageBtn", "clearFilterBtn", "toggleScreenShareBtn",
     "messages", "chatInput", "sendChatBtn"}

\* the statements of the window 'load' listener, in program order
LoadProgramConnectFirst ==
    <<"initSession", "initPublisher", "filterButtons", "screenShareButton",
      "connect", "signalListener", "streamCreatedListener",
      "streamDestroyedListener", "chatButtons">>
LoadProgram ==
    <<"initSession", "initPublisher", "filterButtons", "screenShareButton",
      "signalListener", "connect", "streamCreatedListener",
      "streamDestroyedListener", "chatButtons">>

Loaded == Len(LoadProgram) + 1

\* the statement has been executed
Executed(statement) ==
    \E i \in 1..(load_pc - 1) : LoadProgram[i] = statement

\* publisher = OT.initPublisher("publisher", ...)
LoadedPage == [InitialPage EXCEPT !.publisher = "publisher"]

\* the callback of session.connect with an error: the message goes into the
\* element with id publisher-container if there is one; getElementById
\* returns null otherwise and the assignment to .innerHTML throws
connectErrorCallback(d) ==
    IF "publisher-container" \in ElementIds
    THEN [d EXCEPT !.connection_error = TRUE]
    ELSE d

\* toggleScreenShare, `if (screenPublisher)` branch: stop sharing
toggleScreenShareStopKeepsMini(d) ==
    [d EXCEPT !.screenPublisher = None,
              !.container_display = "none",
              !.main_publisher_display = "block",
              !.publisher_parent = "main-publisher",
              !.screen_divs = IF d.screen_divs > 0 THEN d.screen_divs - 1 ELSE 0,
              !.screen_status = "Screen sharing stopped."]
toggleScreenShareStop(d) ==
    [d EXCEPT !.screenPublisher = None,
              !.container_display = "none",
              !.mini_self_video_display = "none",
              !.main_publisher_display = "block",
              !.publisher_parent = "main-publisher",
              !.screen_divs = IF d.screen_divs > 0 THEN d.screen_divs - 1 ELSE 0,
              !.screen_status = "Screen sharing stopped."]

\* toggleScreenShare, else branch up to OT.checkScreenSharingCapability
toggleScreenShareStartNoDisable(d) ==
    [d EXCEPT !.screen_status = "Checking screen sharing capability..."]
toggleScreenShareStart(d) ==
    [d EXCEPT !.btn_disabled = TRUE,
              !.screen_status = "Checking screen sharing capability..."]

\* initAndPublishScreen up to the return of OT.initPublisher
initAndPublishScreen(d) ==
    [d EXCEPT !.container_display = "block",
              !.main_publisher_display = "none",
              !.mini_self_video_display = "block",
              !.screen_divs = d.screen_divs + 1,
              !.publisher_parent = "mini-publisher",
              !.screenPublisher = "screenPublisher"]

\* the callback of OT.checkScreenSharingCapability
capabilityCallback(d, supported) ==
    IF ~supported
    THEN [d EXCEPT !.screen_status = "Screen sharing failed",
                   !.btn_disabled = FALSE]
    ELSE initAndPublishScreen(d)

\* the callback of OT.initPublisher with an error: the statements before
\* `screenPlaceholder.style.display`, which throws ReferenceError (the script
\* declares no screenPlaceholder and no element has that id)
initErrorCallbackLeavesDisabled(d) ==
    [d EXCEPT !.screen_status = "Failed to start screen sharing",
              !.screenPublisher = None]
initErrorCallback(d) ==
    [d EXCEPT !.screen_status = "Failed to start screen sharing",
              !.screenPublisher = None,
              !.btn_disabled = FALSE]

\* the callback of session.publish(screenPublisher, ...); its error branch
\* ends at the same ReferenceError
publishCallback(d, publishError) ==
    IF publishError
    THEN [d EXCEPT !.btn_disabled = FALSE,
                   !.screen_status = "Failed to publish screen",
                   !.screenPublisher = None]
    ELSE [d EXCEPT !.btn_disabled = FALSE,
                   !.screen_status = "Screen is being shared successfully."]

\* screenPublisher.on('streamDestroyed'): for the two reasons it handles, the
\* statements before the ReferenceError
screenStreamDestroyed(d, reason) ==
    IF reason \in {"mediaStopped", "sessionDisconnected"}
       /\ d.screenPublisher # None
    THEN [d EXCEPT !.screenPublisher = None]
    ELSE d

\* session.on('streamCreated'): one container per stream, appended last
RemoveAt(seq, i) == SubSeq(seq, 1, i - 1) \o SubSeq(seq, i + 1, Len(seq))

FirstIndex(seq, x) ==
    IF \E i \in 1..Len(seq) : seq[i] = x
    THEN CHOOSE i \in 1..Len(seq) :
             seq[i] = x /\ \A j \in 1..(i - 1) : seq[j] # x
    ELSE 0

streamCreatedKeyedByConnection(d, stream) ==
    [d EXCEPT !.placeholder = FALSE,
              !.subscribers =
                  Append(SelectSeq(d.subscribers,
                                   LAMBDA e : ConnectionOf(e) # ConnectionOf(stream)),
                         stream)]
streamCreatedPrepended(d, stream) ==
    [d EXCEPT !.placeholder = FALSE,
              !.subscribers = <<stream>> \o d.subscribers]
streamCreated(d, stream) ==
    [d EXCEPT !.placeholder = FALSE,
              !.subscribers = Append(d.subscribers, stream)]

\* session.on("streamDestroyed"): remove "stream-" + streamId if it is there
streamDestroyedKeepsEntry(d, stream) == d
streamDestroyed(d, stream) ==
    LET i == FirstIndex(d.subscribers, stream)
    IN  IF i = 0 THEN d
        ELSE [d EXCEPT !.subscribers = RemoveAt(d.subscribers, i)]

\* ---------------------------------------------------- app.py (script): chat
\* text is a sequence of characters
Blank == " "

RECURSIVE TrimStart(_)
TrimStart(t) ==
    IF t # << >> /\ Head(t) = Blank THEN TrimStart(Tail(t)) ELSE t

RECURSIVE TrimEnd(_)
TrimEnd(t) ==
    IF t # << >> /\ t[Len(t)] = Blank
    THEN TrimEnd(SubSeq(t, 1, Len(t) - 1))
    ELSE t

\* String.prototype.trim
trim(t) == TrimEnd(TrimStart(t))

\* what the user can have in #chatInput
TypedTexts ==
    {<< >>, <<Blank>>, <<Blank, Blank>>, <<"h", "i">>,
     <<Blank, "h", "i", Blank>>}

\* var username = {username_js} (the script's global)
js_username == "Alice"

\* session.connection.connectionId, and the connection of another participant
LocalConnection == "local"

RemoteConnection == "remote"

\* JSON values: null, or an object with some of the fields sender and text
JsonNull == [type |-> "null", fields |-> {}, sender |-> "", text |-> << >>]

JsonObject(fields, sender, text) ==
    [type |-> "object", fields |-> fields, sender |-> sender, text |-> text]

\* JSON.stringify of a value; a signal's data is such a string or any other
JSON_stringify(value) == [valid |-> TRUE, value |-> value]

NotJson == [valid |-> FALSE, value |-> JsonNull]

SyntaxError == [type |-> "SyntaxError", fields |-> {}, sender |-> "",
                text |-> << >>]

\* JSON.parse: the value, or SyntaxError thrown
JSON_parse(data) == IF data.valid THEN data.value ELSE SyntaxError

\* a property of a parsed value as displayMessage concatenates it into the
\* entry: a missing property reads as undefined and prints as "undefined"
SenderOf(value) ==
    IF "sender" \in value.fields THEN value.sender ELSE "undefined"

TextOf(value) ==
    IF "text" \in value.fields THEN value.text ELSE <<"undefined">>

\* displayMessage: one more element at the end of #messages
displayMessage(d, sender, message, isLocal) ==
    [d EXCEPT !.messages =
                  Append(d.messages,
                         [sender |-> sender, text |-> message,
                          local |-> isLocal])]

\* sendMessage: the text it would send; "" means it returns at once
ChatMessageUntrimmed(d) == d.chat_input
ChatMessage(d) == trim(d.chat_input)

\* the signal sendMessage hands to session.signal
ChatSignal(message) ==
    [from |-> LocalConnection,
     data |-> JSON_stringify(JsonObject({"sender", "text"}, js_username, message))]

\* the completion callback of session.signal
signalCallbackWaitsForEcho(d, message, error) ==
    IF error
    THEN displayMessage(d, "SYSTEM", <<"Failed to send message">>, FALSE)
    ELSE [d EXCEPT !.chat_input = << >>]
signalCallback(d, message, error) ==
    IF error
    THEN displayMessage(d, "SYSTEM", <<"Failed to send message">>, FALSE)
    ELSE [displayMessage(d, js_username, message, TRUE)
              EXCEPT !.chat_input = << >>]

\* session.on('signal:chat'): a signal of the page's own connection is
\* ignored; JSON.parse throwing, or reading a property of null, is caught
signalChatWithoutSelfFilter(d, event) ==
    LET data == JSON_parse(event.data)
    IN  IF data.type \in {"SyntaxError", "null"} THEN d
        ELSE displayMessage(d, SenderOf(data), TextOf(data), FALSE)
signalChat(d, event) ==
    IF event.from = LocalConnection THEN d
    ELSE LET data == JSON_parse(event.data)
         IN  IF data.type \in {"SyntaxError", "null"} THEN d
             ELSE displayMessage(d, SenderOf(data), TextOf(data), FALSE)

\* what another participant's signal of type chat can carry
RemotePayloads ==
    {NotJson,
     JSON_stringify(JsonNull),
     JSON_stringify(JsonObject({"sender", "text"}, "Bob", <<"y", "o">>)),
     JSON_stringify(JsonObject({"sender"}, "Bob", << >>)),
     JSON_stringify(JsonObject({}, "", << >>))}

RemoteSignals == [from : {RemoteConnection}, data : RemotePayloads]

\* the payload has the shape {sender: string, text: string}
WellFormed(data) ==
    /\ data.valid
    /\ data.value.type = "object"
    /\ data.value.fields = {"sender", "text"}

\* ------------------------------------------- app.py (script): video filters
\* filterOptions.type of the two buttons
FilterTypes == {"backgroundBlur", "backgroundReplacement"}

\* the statusText the button passes with it
StatusText(type) ==
    IF type = "backgroundBlur" THEN "Background Blur (Low)"
    ELSE "Background Replacement"

\* updateStatus: the text of #statusMessage
updateStatus(d, message) == [d EXCEPT !.status = message]

\* applyVideoFilter goes on to publisher.applyVideoFilter
CanApplyWithoutSupportCheck(d, support) == d.publisher # None
CanApply(d, support) == d.publisher # None /\ support

\* applyVideoFilter up to the await
applyVideoFilter(d, support, type) ==
    IF d.publisher = None
    THEN updateStatus(d, <<"Publisher not initialized.">>)
    ELSE IF ~support
    THEN updateStatus(d, <<"Video filters are not supported in this browser.">>)
    ELSE updateStatus(d, <<"Applying", StatusText(type)>>)

\* applyVideoFilter after the await: the try's second statement or the catch
applyFailedDropsPublisher(d, type) ==
    [updateStatus(d, <<"Failed to apply", StatusText(type)>>)
         EXCEPT !.publisher = None]
applyFailed(d, type) ==
    updateStatus(d, <<"Failed to apply", StatusText(type)>>)

applyResolved(d, type, ok) ==
    IF ok THEN updateStatus(d, <<StatusText(type), "applied successfully.">>)
    ELSE applyFailed(d, type)

\* clearFilter up to the await, and after it
clearFilter(d) ==
    IF d.publisher = None THEN d
    ELSE updateStatus(d, <<"Clearing filter...">>)

clearResolvedSilentOnError(d, ok) ==
    IF ok THEN updateStatus(d, <<"Filter cleared.">>) ELSE d
clearResolved(d, ok) ==
    IF ok THEN updateStatus(d, <<"Filter cleared.">>)
    ELSE updateStatus(d, <<"Failed to clear filter">>)

NoEvent == [name |-> "load", arg |-> None]

Event(name, arg) == [name |-> name, arg |-> arg]

NoPending == [check |-> 0, init |-> 0, publish |-> 0]

\* no signal sent, none on its way to the page
NoSignals == [sending |-> << >>, echoes |-> << >>, acked |-> 0]

\* no filter on the camera, no call outstanding
NoFilter(support) ==
    [support |-> support, active |-> None, pending |-> << >>]

Outstanding == screen_pending.check + screen_pending.init + screen_pending.publish

\* the page after window load: listeners attached, session.connect under way
RoomLoaded ==
    /\ page = LoadedPage
    /\ load_pc = Loaded
    /\ signals = NoSignals
    /\ filter = NoFilter(TRUE)
    /\ conn = "connecting"
    /\ camera_published = FALSE
    /\ screen_pending = NoPending
    /\ screen_live = FALSE
    /\ streams = {}
    /\ last_event = NoEvent
    /\ before = LoadedPage
    /\ pair = "none"

\* ------------------------------------------------------------------- Init
NoMeeting == [session_id |-> None, token |-> NoToken, application_id |-> None]

\* last_session_details: nothing kept yet
NoDetails == [session_id |-> None, error |-> None]

NoSessionState ==
    [api_key |-> None, application_id |-> None, default_session_id |-> None,
     current_meeting |-> NoMeeting, last_session_details |-> NoDetails]

current_meeting == session_state.current_meeting

InMeeting == current_meeting # NoMeeting

Init ==
    /\ env \in [EnvVars -> EnvValues]
    /\ phase = "load_config"
    /\ vonage_config = NoConfig
    /\ vonage_video_client = None
    /\ DEFAULT_SESSION_ID = None
    /\ sessions_created = 0
    /\ first_created = None
    /\ default_writes = 0
    /\ pending = {}
    /\ last_response = NoResponse
    /\ client_pc = "idle"
    /\ client_inbox = NoResponse
    /\ session_state = NoSessionState
    /\ RoomLoaded

\* ------------------------------------------------- start-up (module import)
\* vonage_config = load_vonage_environment_config()
LoadConfig ==
    /\ phase = "load_config"
    /\ IF MissingVars(env) # {}
       THEN /\ phase' = "failed"
            /\ UNCHANGED vonage_config
       ELSE /\ phase' = "init_client"
            /\ vonage_config' = env
    /\ UNCHANGED <<env, vonage_video_client, DEFAULT_SESSION_ID,
                   sessions_created, first_created, default_writes, pending,
                   last_response, clientVars, roomVars>>

\* vonage_video_client = initialize_vonage_video_client()
InitClient ==
    /\ phase = "init_client"
    /\ \E ok \in BOOLEAN :
          IF ok
          THEN /\ vonage_video_client' = "Vonage"
               /\ phase' = "create_default"
          ELSE /\ phase' = "failed"
               /\ UNCHANGED vonage_video_client
    /\ UNCHANGED <<env, vonage_config, DEFAULT_SESSION_ID, sessions_created,
                   first_created, default_writes, pending, last_response,
                   clientVars, roomVars>>

\* DEFAULT_SESSION_ID = create_default_video_session(vonage_video_client)
CreateDefault ==
    /\ phase = "create_default"
    /\ \E outcome \in PlatformCreateOutcomes :
          LET session_id ==
                  create_default_video_session(
                      outcome, SessionIdOf(sessions_created + 1))
          IN  /\ DEFAULT_SESSION_ID' = session_id
              /\ sessions_created' =
                     IF outcome = "ok" THEN sessions_created + 1
                     ELSE sessions_created
              /\ first_created' = session_id
    /\ phase' = "serving"
    /\ UNCHANGED <<env, vonage_config, vonage_video_client, default_writes,
                   pending, last_response, clientVars, roomVars>>

\* ------------------------------------------------------ request handling
SessionIdInputs == {SessionIdOf(n) : n \in 1..MaxSessions} \cup {Fabricated}

\* the requests other clients of the REST surface can send
RequestInputs ==
    {CreateRequest(None, "other")}
    \cup {Request("get", sid, None, None, "other") : sid \in SessionIdInputs}
    \cup {Request("token", sid, role, username, "other") :
              sid \in SessionIdInputs \cup {None, EmptyStr},
              role \in Roles, username \in Usernames}
    \cup {Request("health", None, None, None, "other")}

\* create requests with each media mode, and with no body
CreateInputs == {CreateRequest(mode, "other") : mode \in MediaModes \cup {None}}

Arrive(req) ==
    /\ phase = "serving"
    /\ Cardinality(pending) < MaxInflight
    /\ req \notin pending
    /\ pending' = pending \cup {req}
    /\ UNCHANGED <<serverVars, last_response, clientVars, roomVars>>

\* the handler's response goes back to whoever sent the request
Deliver(r, resp) ==
    /\ pending' = pending \ {r}
    /\ last_response' = resp
    /\ client_inbox' = IF r.owner = "app" THEN resp ELSE client_inbox
    /\ UNCHANGED <<client_pc, session_state>>

HandleCreate(r) ==
    /\ phase = "serving"
    /\ r \in pending
    /\ r.kind = "create"
    /\ \E outcome \in PlatformCreateOutcomes :
          LET new_session_id ==
                  create_default_video_session(
                      outcome, SessionIdOf(sessions_created + 1))
              default == DefaultAfterCreate(DEFAULT_SESSION_ID, new_session_id)
          IN  /\ sessions_created' =
                     IF outcome = "ok" THEN sessions_created + 1
                     ELSE sessions_created
              /\ first_created' =
                     IF first_created = None THEN new_session_id
                     ELSE first_created
              /\ DEFAULT_SESSION_ID' = default
              /\ default_writes' =
                     IF default # DEFAULT_SESSION_ID THEN default_writes + 1
                     ELSE default_writes
              /\ Deliver(r, Response(r, create_new_video_session(new_session_id),
                                     outcome, DEFAULT_SESSION_ID, InMeeting))
    /\ UNCHANGED <<env, phase, vonage_config, vonage_video_client, roomVars>>

HandleGetSession(r) ==
    /\ phase = "serving"
    /\ r \in pending
    /\ r.kind = "get"
    /\ \E outcome \in PlatformTokenOutcomes(r.session_id) :
          Deliver(r, Response(r, get_video_session_info(r.session_id, outcome),
                              outcome, DEFAULT_SESSION_ID, InMeeting))
    /\ UNCHANGED <<serverVars, roomVars>>

HandleToken(r) ==
    /\ phase = "serving"
    /\ r \in pending
    /\ r.kind = "token"
    /\ \E outcome \in PlatformTokenOutcomes(
                          TargetSessionId(r.session_id, DEFAULT_SESSION_ID)) :
          Deliver(r, Response(r, generate_user_access_token(
                                     r.session_id, r.role, r.username,
                                     DEFAULT_SESSION_ID, outcome),
                              outcome, DEFAULT_SESSION_ID, InMeeting))
    /\ UNCHANGED <<serverVars, roomVars>>

HandleHealth(r) ==
    /\ phase = "serving"
    /\ r \in pending
    /\ r.kind = "health"
    /\ \E exists \in BOOLEAN :
          Deliver(r, Response(r, get_application_health_status(exists),
                              "none", DEFAULT_SESSION_ID, InMeeting))
    /\ UNCHANGED <<serverVars, roomVars>>

\* --------------------------------------- app.py: the "Start Meeting" button
\* session_id = create_new_video_session(): requests.post(.../api/sessions/create)
StartMeeting ==
    /\ phase = "serving"
    /\ client_pc = "idle"
    /\ ~InMeeting
    /\ Cardinality(pending) < MaxInflight
    /\ pending' = pending \cup {Request("create", None, None, None, "app")}
    /\ client_pc' = "await_create"
    /\ UNCHANGED <<serverVars, last_response, client_inbox, session_state,
                   roomVars>>

\* the rest of create_new_video_session(), then generate_user_access_token(session_id)
OnCreateResponse ==
    /\ client_pc = "await_create"
    /\ client_inbox # NoResponse
    /\ LET data == client_inbox.reply
           session_id == IF data.status = 200 THEN data.session_id ELSE None
       IN  /\ session_state' =
                  IF data.status = 200
                  THEN [session_state EXCEPT
                            !.api_key = data.api_key,
                            !.application_id = data.application_id,
                            !.default_session_id = data.session_id]
                  ELSE session_state
           /\ IF Truthy(session_id)
              THEN /\ pending' =
                          pending \cup
                          {Request("token", session_id, "publisher", "Alice",
                                   "app")}
                   /\ client_pc' = "await_token"
              ELSE /\ client_pc' = "idle"
                   /\ UNCHANGED pending
    /\ client_inbox' = NoResponse
    /\ UNCHANGED <<serverVars, last_response, roomVars>>

\* token, _ = generate_user_access_token(session_id); if token: current_meeting = ...
OnTokenResponse ==
    /\ client_pc = "await_token"
    /\ client_inbox # NoResponse
    /\ LET data == client_inbox.reply
           token == IF data.status = 200 THEN data.token ELSE NoToken
       IN  IF token # NoToken
           THEN /\ session_state' =
                       [session_state EXCEPT
                            !.current_meeting =
                                [session_id |-> client_inbox.req.session_id,
                                 token |-> token,
                                 application_id |-> session_state.application_id]]
                /\ client_pc' = "in_meeting"
           ELSE /\ client_pc' = "idle"
                /\ UNCHANGED session_state
    /\ client_inbox' = NoResponse
    /\ UNCHANGED <<serverVars, pending, last_response, roomVars>>

\* --------------------------------------- app.py: the "Join Meeting" button
\* what the user can have in the session id field: text is a sequence of
\* characters, a session id counting as one
JoinInputs ==
    {<< >>, <<Blank>>, <<Fabricated>>}
        \cup {<<SessionIdOf(n)>> : n \in 1..MaxSessions}
        \cup {<<Blank, SessionIdOf(1), Blank>>}

\* session_input.strip(), as the string the requests carry
StrippedInput(session_input) ==
    IF trim(session_input) = << >> THEN EmptyStr ELSE trim(session_input)[1]

\* resp.raise_for_status() passes
ValidatedWhateverTheStatus(reply) == TRUE
Validated(reply) == reply.status = 200

\* the click: a blank input only shows a warning; otherwise
\* join_existing_video_session(session_input.strip()) up to requests.get
JoinMeeting(session_input) ==
    /\ phase = "serving"
    /\ client_pc = "idle"
    /\ ~InMeeting
    /\ IF ~Truthy(StrippedInput(session_input))
       THEN UNCHANGED <<pending, client_pc>>
       ELSE /\ Cardinality(pending) < MaxInflight
            /\ pending' =
                   pending \cup
                   {Request("get", StrippedInput(session_input), None, None,
                            "app")}
            /\ client_pc' = "await_validate"
    /\ last_event' = Event("join", session_input)
    /\ UNCHANGED <<serverVars, last_response, client_inbox, session_state,
                   page, conn, camera_published, screen_pending, screen_live,
                   streams, before, pair, load_pc, signals, filter>>

\* the rest of join_existing_video_session(), then
\* generate_user_access_token(session_input.strip())
OnValidateResponse ==
    /\ client_pc = "await_validate"
    /\ client_inbox # NoResponse
    /\ LET data == client_inbox.reply
           session_id == client_inbox.req.session_id
       IN  IF Validated(data)
           THEN /\ session_state' =
                       [session_state EXCEPT
                            !.api_key = data.api_key,
                            !.application_id = data.application_id,
                            !.default_session_id = session_id]
                /\ pending' =
                       pending \cup
                       {Request("token", session_id, "publisher", "Alice",
                                "app")}
                /\ client_pc' = "await_token"
           ELSE /\ client_pc' = "idle"
                /\ UNCHANGED <<session_state, pending>>
    /\ client_inbox' = NoResponse
    /\ UNCHANGED <<serverVars, last_response, roomVars>>

\* ------------------------------------------------- the meeting page's events
DisplayMode(d) ==
    IF d.container_display # "none" THEN "ScreenMain" ELSE "CameraMain"

\* the controller at rest with the camera as the main display
IdleCameraMain(d) ==
    /\ d.screenPublisher = None
    /\ ~d.btn_disabled
    /\ DisplayMode(d) = "CameraMain"

\* a handler of the page ran, while the app renders the page (components.html
\* is under `if st.session_state.current_meeting`): the server and the
\* Streamlit script are not involved
RanOnPage(name, arg) ==
    /\ InMeeting
    /\ conn # "closed"
    /\ last_event' = Event(name, arg)
    /\ before' = page
    /\ UNCHANGED <<serverVars, pending, last_response, clientVars>>

\* a handler that sends no chat signal and makes no filter call; callbacks
\* and user events come after the 'load' listener has returned
Ran(name, arg) ==
    /\ load_pc = Loaded
    /\ RanOnPage(name, arg)
    /\ UNCHANGED <<load_pc, signals, filter>>

\* session.connect's callback without an error: session.publish(publisher)
ConnectOk ==
    /\ conn = "connecting"
    /\ conn' = "connected"
    /\ camera_published' = TRUE
    /\ Ran("connect_ok", None)
    /\ UNCHANGED <<page, screen_pending, screen_live, streams, pair>>

\* session.connect's callback with an error: getElementById('publisher-container')
\* is null (no such element), the assignment to its innerHTML throws
ConnectError ==
    /\ conn = "connecting"
    /\ conn' = "failed"
    /\ page' = connectErrorCallback(page)
    /\ Ran("connect_error", None)
    /\ UNCHANGED <<camera_published, screen_pending, screen_live,
                   streams, pair>>

\* a click on #toggleScreenShareBtn (a disabled button fires no click)
ClickToggle ==
    /\ ~page.btn_disabled
    /\ IF page.screenPublisher # None
       THEN /\ page' = toggleScreenShareStop(page)
            /\ screen_live' = FALSE
            /\ pair' = IF pair = "sharing" THEN "done" ELSE "none"
            /\ Ran("toggle_stop", None)
            /\ UNCHANGED screen_pending
       ELSE /\ page.screen_divs + Outstanding < MaxScreenDivs
            /\ Outstanding < MaxPending
            /\ page' = toggleScreenShareStart(page)
            /\ screen_pending' =
                   [screen_pending EXCEPT !.check = screen_pending.check + 1]
            /\ pair' = IF IdleCameraMain(page) THEN "started" ELSE "none"
            /\ Ran("toggle_start", None)
            /\ UNCHANGED screen_live
    /\ UNCHANGED <<conn, camera_published, streams>>

\* the platform answers OT.checkScreenSharingCapability
CapabilityResult(supported) ==
    /\ screen_pending.check > 0
    /\ page' = capabilityCallback(page, supported)
    /\ screen_pending' =
           [screen_pending EXCEPT
                !.check = screen_pending.check - 1,
                !.init = IF supported THEN screen_pending.init + 1
                         ELSE screen_pending.init]
    /\ pair' = IF supported THEN pair ELSE "none"
    /\ Ran(IF supported THEN "capability_ok" ELSE "unsupported", None)
    /\ UNCHANGED <<conn, camera_published, screen_live, streams>>

\* the platform completes OT.initPublisher; without an error the callback
\* calls session.publish and registers the streamDestroyed listener
InitResult(ok) ==
    /\ screen_pending.init > 0
    /\ page' = IF ok THEN page ELSE initErrorCallback(page)
    /\ screen_pending' =
           [screen_pending EXCEPT
                !.init = screen_pending.init - 1,
                !.publish = IF ok THEN screen_pending.publish + 1
                            ELSE screen_pending.publish]
    /\ pair' = IF ok THEN pair ELSE "none"
    /\ Ran(IF ok THEN "init_ok" ELSE "init_error", None)
    /\ UNCHANGED <<conn, camera_published, screen_live, streams>>

\* the platform completes session.publish(screenPublisher); it can succeed
\* only on a connected session
PublishResult(ok) ==
    /\ screen_pending.publish > 0
    /\ ok => conn = "connected"
    /\ page' = publishCallback(page, ~ok)
    /\ screen_pending' =
           [screen_pending EXCEPT !.publish = screen_pending.publish - 1]
    /\ screen_live' = ok
    /\ pair' = IF ok /\ pair = "started" THEN "sharing" ELSE "none"
    /\ Ran(IF ok THEN "publish_ok" ELSE "publish_error", None)
    /\ UNCHANGED <<conn, camera_published, streams>>

\* reasons with which the platform ends a published screen stream from outside
\* the page: the browser's own stop control, a moderator
DestroyReasons == {"mediaStopped", "forceUnpublished"}

ScreenStreamDestroyed(reason) ==
    /\ screen_live
    /\ screen_live' = FALSE
    /\ page' = screenStreamDestroyed(page, reason)
    /\ pair' = "none"
    /\ Ran("screen_stream_destroyed", reason)
    /\ UNCHANGED <<conn, camera_published, screen_pending, streams>>

\* the platform announces a remote stream
StreamCreated(stream) ==
    /\ conn = "connected"
    /\ stream \notin streams
    /\ streams' = streams \cup {stream}
    /\ page' = streamCreated(page, stream)
    /\ Ran("stream_created", stream)
    /\ UNCHANGED <<conn, camera_published, screen_pending, screen_live, pair>>

\* the platform announces the end of a remote stream
StreamDestroyed(stream) ==
    /\ conn = "connected"
    /\ stream \in streams
    /\ streams' = streams \ {stream}
    /\ page' = streamDestroyed(page, stream)
    /\ Ran("stream_destroyed", stream)
    /\ UNCHANGED <<conn, camera_published, screen_pending, screen_live, pair>>

\* a stream-destroyed event for a stream that is not live (repeated or late)
StrayStreamDestroyed(stream) ==
    /\ conn = "connected"
    /\ stream \notin streams
    /\ page' = streamDestroyed(page, stream)
    /\ Ran("stray_stream_destroyed", stream)
    /\ UNCHANGED <<conn, camera_published, screen_pending, screen_live,
                   streams, pair>>

\* ------------------------------------------ the window 'load' listener
\* one statement of the listener; no callback and no user event runs before
\* the listener has returned
LoadStep ==
    /\ InMeeting
    /\ load_pc < Loaded
    /\ load_pc' = load_pc + 1
    /\ page' = IF LoadProgram[load_pc] = "initPublisher"
               THEN [page EXCEPT !.publisher = "publisher"]
               ELSE page
    /\ conn' = IF LoadProgram[load_pc] = "connect" THEN "connecting" ELSE conn
    /\ RanOnPage("load", None)
    /\ UNCHANGED <<camera_published, screen_pending, screen_live, streams,
                   pair, signals, filter>>

\* ------------------------------------------------------ the chat's events
\* a handler of the chat ran; arg keeps the signals as it found them
RanChat(name) ==
    /\ load_pc = Loaded
    /\ RanOnPage(name, signals)
    /\ UNCHANGED <<conn, camera_published, screen_pending, screen_live,
                   streams, pair, load_pc, filter>>

InFlight == Len(signals.sending) + Len(signals.echoes)

\* the user edits #chatInput
TypeText(t) ==
    /\ t # page.chat_input
    /\ page' = [page EXCEPT !.chat_input = t]
    /\ RanChat("type")
    /\ UNCHANGED signals

\* a click on #sendChatBtn or Enter in #chatInput: sendMessage(session)
ClickSend ==
    /\ LET message == ChatMessage(page)
       IN  IF message = << >>
           THEN UNCHANGED signals
           ELSE /\ InFlight < MaxSignals
                /\ signals' =
                       [signals EXCEPT
                            !.sending =
                                Append(@, [text |-> message, relayed |-> FALSE])]
    /\ UNCHANGED page
    /\ RanChat("send")

\* the platform relays a signal to every connection of the session, the
\* sender's included
Relay(i) ==
    /\ conn = "connected"
    /\ i \in 1..Len(signals.sending)
    /\ ~signals.sending[i].relayed
    /\ signals' =
           [signals EXCEPT
                !.sending[i].relayed = TRUE,
                !.echoes = Append(@, ChatSignal(signals.sending[i].text))]
    /\ UNCHANGED page
    /\ RanChat("relay")

\* the completion callback of session.signal runs: without an error for a
\* relayed signal, with one otherwise
SignalResult(i) ==
    /\ i \in 1..Len(signals.sending)
    /\ Len(page.messages) < MaxMessages
    /\ LET sent == signals.sending[i]
       IN  /\ page' = signalCallback(page, sent.text, ~sent.relayed)
           /\ signals' =
                  [signals EXCEPT
                       !.sending = RemoveAt(@, i),
                       !.acked = IF sent.relayed THEN @ + 1 ELSE @]
           /\ RanChat(IF sent.relayed THEN "signal_ok" ELSE "signal_error")

\* a signal arrives at the page: the listener runs if it is registered
Dispatch(d, event) ==
    IF Executed("signalListener") THEN signalChat(d, event) ELSE d

\* the relayed copy of one of the page's own signals arrives
EchoArrives(j) ==
    /\ conn = "connected"
    /\ j \in 1..Len(signals.echoes)
    /\ Len(page.messages) < MaxMessages
    /\ page' = Dispatch(page, signals.echoes[j])
    /\ signals' = [signals EXCEPT !.echoes = RemoveAt(@, j)]
    /\ RanChat("echo")

\* a chat signal of another participant arrives
RemoteSignalArrives(event) ==
    /\ conn = "connected"
    /\ Len(page.messages) < MaxMessages
    /\ page' = Dispatch(page, event)
    /\ last_event' = Event("signal", [event |-> event, signals |-> signals])
    /\ InMeeting
    /\ load_pc = Loaded
    /\ before' = page
    /\ UNCHANGED <<serverVars, pending, last_response, clientVars, conn,
                   camera_published, screen_pending, screen_live, streams,
                   pair, load_pc, signals, filter>>

\* ----------------------------------------------------- the filters' events
\* a handler of the filter controls ran; arg keeps the platform's filter state
\* as it found it
RanFilter(name) ==
    /\ load_pc = Loaded
    /\ RanOnPage(name, filter)
    /\ UNCHANGED <<conn, camera_published, screen_pending, screen_live,
                   streams, pair, load_pc, signals>>

\* a click on #applyBlurBtn or #applyImageBtn
ClickApply(type) ==
    /\ page' = applyVideoFilter(page, filter.support, type)
    /\ IF CanApply(page, filter.support)
       THEN /\ Len(filter.pending) < MaxCalls
            /\ filter' = [filter EXCEPT !.pending = Append(@, type)]
       ELSE UNCHANGED filter
    /\ RanFilter("apply_filter")

\* the promise of publisher.applyVideoFilter settles
ApplyResult(i, ok) ==
    /\ i \in 1..Len(filter.pending)
    /\ filter.pending[i] \in FilterTypes
    /\ ok => filter.support
    /\ page' = applyResolved(page, filter.pending[i], ok)
    /\ filter' =
           [filter EXCEPT
                !.pending = RemoveAt(@, i),
                !.active = IF ok THEN filter.pending[i] ELSE @]
    /\ RanFilter(IF ok THEN "apply_ok" ELSE "apply_failed")

\* a click on #clearFilterBtn
ClickClear ==
    /\ page' = clearFilter(page)
    /\ IF page.publisher # None
       THEN /\ Len(filter.pending) < MaxCalls
            /\ filter' = [filter EXCEPT !.pending = Append(@, "clear")]
       ELSE UNCHANGED filter
    /\ RanFilter("clear_filter")

\* the promise of publisher.clearVideoFilter settles
ClearResult(i, ok) ==
    /\ i \in 1..Len(filter.pending)
    /\ filter.pending[i] = "clear"
    /\ ok => filter.support
    /\ page' = clearResolved(page, ok)
    /\ filter' =
           [filter EXCEPT
                !.pending = RemoveAt(@, i),
                !.active = IF ok THEN None ELSE @]
    /\ RanFilter(IF ok THEN "clear_ok" ELSE "clear_failed")

\* ------------------------------------------- app.py: the "Leave Meeting" button
\* what the app keeps of the answer to GET /api/sessions/{session_id}
SessionDetailsKeptOnError(reply) ==
    IF reply.status = 200
    THEN [session_id |-> reply.session_id, error |-> None]
    ELSE session_state.last_session_details
SessionDetails(reply) ==
    IF reply.status = 200
    THEN [session_id |-> reply.session_id, error |-> None]
    ELSE [session_id |-> None, error |-> "HTTPError"]

\* the click: the session details are fetched and kept, current_meeting is
\* cleared and the script reruns. Nothing here, and no handler of the page,
\* calls session.unpublish, publisher.destroy or session.disconnect.
LeaveMeeting ==
    /\ InMeeting
    /\ \E outcome \in PlatformTokenOutcomes(current_meeting.session_id) :
           session_state' =
               [session_state EXCEPT
                    !.last_session_details =
                        SessionDetails(
                            get_video_session_info(current_meeting.session_id,
                                                   outcome)),
                    !.current_meeting = NoMeeting]
    /\ client_pc' = "idle"
    /\ last_event' =
           Event("leave", [session_id |-> current_meeting.session_id,
                           previous |-> session_state.last_session_details])
    /\ before' = page
    /\ UNCHANGED <<serverVars, pending, last_response, client_inbox, page,
                   conn, camera_published, screen_pending, screen_live,
                   streams, pair, load_pc, signals, filter>>

\* the rerun renders no components.html: the browser discards the page's
\* frame, and with it the connection and the publishers
DiscardPage ==
    /\ ~InMeeting
    /\ conn # "closed"
    /\ conn' = "closed"
    /\ page' = InitialPage
    /\ camera_published' = FALSE
    /\ screen_pending' = NoPending
    /\ screen_live' = FALSE
    /\ streams' = {}
    /\ pair' = "none"
    /\ load_pc' = 1
    /\ signals' = NoSignals
    /\ filter' = NoFilter(filter.support)
    /\ last_event' = Event("discard", None)
    /\ before' = page
    /\ UNCHANGED <<serverVars, pending, last_response, clientVars>>

\* ------------------------------------------------------------ specification
Next ==
    \/ LoadConfig
    \/ InitClient
    \/ CreateDefault
    \/ \E req \in RequestInputs : Arrive(req)
    \/ \E r \in pending : HandleCreate(r)
    \/ \E r \in pending : HandleGetSession(r)
    \/ \E r \in pending : HandleToken(r)
    \/ \E r \in pending : HandleHealth(r)
    \/ StartMeeting
    \/ OnCreateResponse
    \/ OnTokenResponse

Spec == Init /\ [][Next]_vars

\* the server from start-up on, serving create requests of every form
CreateNext ==
    \/ LoadConfig
    \/ InitClient
    \/ CreateDefault
    \/ \E req \in CreateInputs : Arrive(req)
    \/ \E r \in pending : HandleCreate(r)

CreateSpec == Init /\ [][CreateNext]_vars

\* the meeting page, rendered once current_meeting is set: the server runs with
\* a default session and the app holds a credential for it
RoomInit ==
    /\ env = [k \in EnvVars |-> "set"]
    /\ phase = "serving"
    /\ vonage_config = env
    /\ vonage_video_client = "Vonage"
    /\ DEFAULT_SESSION_ID = SessionIdOf(1)
    /\ sessions_created = 1
    /\ first_created = SessionIdOf(1)
    /\ default_writes = 0
    /\ pending = {}
    /\ last_response = NoResponse
    /\ client_pc = "in_meeting"
    /\ client_inbox = NoResponse
    /\ session_state =
           [api_key |-> "set", application_id |-> "set",
            default_session_id |-> SessionIdOf(1),
            last_session_details |-> NoDetails,
            current_meeting |->
                [session_id |-> SessionIdOf(1),
                 token |-> [session_id |-> SessionIdOf(1),
                            role |-> "publisher", data |-> "Alice"],
                 application_id |-> "set"]]
    /\ RoomLoaded

RoomNext ==
    \/ ConnectOk
    \/ ConnectError
    \/ ClickToggle
    \/ \E supported \in BOOLEAN : CapabilityResult(supported)
    \/ \E ok \in BOOLEAN : InitResult(ok)
    \/ \E ok \in BOOLEAN : PublishResult(ok)
    \/ \E reason \in DestroyReasons : ScreenStreamDestroyed(reason)
    \/ \E stream \in Streams : StreamCreated(stream)
    \/ \E stream \in Streams : StreamDestroyed(stream)
    \/ \E stream \in Streams : StrayStreamDestroyed(stream)
    \/ LeaveMeeting
    \/ DiscardPage

RoomSpec == RoomInit /\ [][RoomNext]_vars

\* the page from the moment its window 'load' event fires
PageOpened ==
    /\ page = InitialPage
    /\ load_pc = 1
    /\ conn = "new"
    /\ camera_published = FALSE
    /\ screen_pending = NoPending
    /\ screen_live = FALSE
    /\ streams = {}
    /\ last_event = NoEvent
    /\ before = InitialPage
    /\ pair = "none"
    /\ signals = NoSignals

ServerUp ==
    /\ env = [k \in EnvVars |-> "set"]
    /\ phase = "serving"
    /\ vonage_config = env
    /\ vonage_video_client = "Vonage"
    /\ DEFAULT_SESSION_ID = SessionIdOf(1)
    /\ sessions_created = 1
    /\ first_created = SessionIdOf(1)
    /\ default_writes = 0
    /\ pending = {}
    /\ last_response = NoResponse

Joined ==
    /\ client_pc = "in_meeting"
    /\ client_inbox = NoResponse
    /\ session_state =
           [api_key |-> "set", application_id |-> "set",
            default_session_id |-> SessionIdOf(1),
            last_session_details |-> NoDetails,
            current_meeting |->
                [session_id |-> SessionIdOf(1),
                 token |-> [session_id |-> SessionIdOf(1),
                            role |-> "publisher", data |-> "Alice"],
                 application_id |-> "set"]]

\* the chat of the meeting page
ChatInit ==
    /\ ServerUp
    /\ Joined
    /\ PageOpened
    /\ filter = NoFilter(TRUE)

ChatNext ==
    \/ LoadStep
    \/ ConnectOk
    \/ ConnectError
    \/ \E t \in TypedTexts : TypeText(t)
    \/ ClickSend
    \/ \E i \in 1..MaxSignals : Relay(i)
    \/ \E i \in 1..MaxSignals : SignalResult(i)
    \/ \E j \in 1..MaxSignals : EchoArrives(j)
    \/ \E event \in RemoteSignals : RemoteSignalArrives(event)

ChatSpec == ChatInit /\ [][ChatNext]_vars

\* the filter controls of the meeting page, in a browser with or without
\* media processor support
FilterInit ==
    /\ ServerUp
    /\ Joined
    /\ PageOpened
    /\ filter \in {NoFilter(support) : support \in BOOLEAN}

FilterNext ==
    \/ LoadStep
    \/ ConnectOk
    \/ ConnectError
    \/ \E type \in FilterTypes : ClickApply(type)
    \/ \E i \in 1..MaxCalls, ok \in BOOLEAN : ApplyResult(i, ok)
    \/ ClickClear
    \/ \E i \in 1..MaxCalls, ok \in BOOLEAN : ClearResult(i, ok)

FilterSpec == FilterInit /\ [][FilterNext]_vars

\* the page's asynchronous operations and their two status lines: the filter
\* controls together with the screen-share toggle
StatusNext ==
    \/ LoadStep
    \/ ConnectOk
    \/ ConnectError
    \/ \E type \in FilterTypes : ClickApply(type)
    \/ \E i \in 1..MaxCalls, ok \in BOOLEAN : ApplyResult(i, ok)
    \/ ClickClear
    \/ \E i \in 1..MaxCalls, ok \in BOOLEAN : ClearResult(i, ok)
    \/ ClickToggle
    \/ \E supported \in BOOLEAN : CapabilityResult(supported)
    \/ \E ok \in BOOLEAN : InitResult(ok)
    \/ \E ok \in BOOLEAN : PublishResult(ok)
    \/ \E reason \in DestroyReasons : ScreenStreamDestroyed(reason)

StatusSpec == FilterInit /\ [][StatusNext]_vars

\* the app's visits to meetings: start or join, then leave, against a server
\* that is up
ClientInit ==
    /\ ServerUp
    /\ client_pc = "idle"
    /\ client_inbox = NoResponse
    /\ session_state = NoSessionState
    /\ RoomLoaded

ClientNext ==
    \/ StartMeeting
    \/ \E session_input \in JoinInputs : JoinMeeting(session_input)
    \/ \E r \in pending : HandleCreate(r)
    \/ \E r \in pending : HandleGetSession(r)
    \/ \E r \in pending : HandleToken(r)
    \/ OnCreateResponse
    \/ OnValidateResponse
    \/ OnTokenResponse
    \/ LeaveMeeting

ClientSpec == ClientInit /\ [][ClientNext]_vars

\* ------------------------------------------------------------- properties
Served(kind) == last_response.req.kind = kind

Answer == last_response.reply

OmitsSessionId == ~Truthy(last_response.req.session_id)

\* C1: whenever some session creation has succeeded (at start-up or through
\* POST /api/sessions/create), the default-session pointer equals the id of the
\* first successfully created session.
C1_DefaultIsFirstCreated ==
    first_created # None => DEFAULT_SESSION_ID = first_created

\* C2: however concurrent CreateSession requests are ordered, at most one
\* request sets the default-session pointer, and what a reader of the pointer
\* (the credential fallback, the health status) gets is None or the whole id
\* of a session the platform created.
C2_AtMostOneWriterWholeReads ==
    /\ default_writes <= 1
    /\ DEFAULT_SESSION_ID \in {None} \cup PlatformSessions
    /\ (Served("token") \/ Served("health"))
           => last_response.default_before \in {None} \cup PlatformSessions
    /\ (Served("token") /\ OmitsSessionId /\ Answer.status = 200)
           => Answer.session_id \in PlatformSessions

\* a CreateSession succeeded while another CreateSession and a reader of the
\* pointer were waiting
C2_Witness ==
    /\ Served("create")
    /\ Answer.status = 200
    /\ \E r \in pending : r.kind = "create"
    /\ \E r \in pending : r.kind = "token" /\ ~Truthy(r.session_id)

\* C3: GET /api/tokens/generate without a session id, while a default session
\* exists, answers with a credential bound to the default session id; the only
\* other answer is the 500 of a failed platform mint.
C3_FallbackToDefault ==
    (Served("token") /\ OmitsSessionId /\ Truthy(last_response.default_before))
        => IF last_response.platform_ok
           THEN /\ Answer.status = 200
                /\ Answer.session_id = last_response.default_before
                /\ Answer.token.session_id = last_response.default_before
                /\ Answer.session_id = DEFAULT_SESSION_ID
           ELSE /\ Answer.status = 500
                /\ Answer.detail = "Token generation failed"
                /\ Answer.token = NoToken

C3_Witness ==
    /\ Served("token")
    /\ OmitsSessionId
    /\ Truthy(last_response.default_before)
    /\ Answer.status = 200

\* C4: GET /api/tokens/generate without a session id, while no default session
\* exists, fails with 500 "No video session available", mints no credential
\* and makes no platform call.
C4_NoSessionAvailable ==
    (Served("token") /\ OmitsSessionId /\ ~Truthy(last_response.default_before))
        => /\ Answer.status = 500
           /\ Answer.detail = "No video session available"
           /\ Answer.token = NoToken
           /\ Answer.calls = 0

C4_Witness ==
    /\ Served("token")
    /\ OmitsSessionId
    /\ ~Truthy(last_response.default_before)
    /\ Answer.status = 500

\* C5: GET /api/sessions/{id} answers 404 for an id the platform does not
\* know and for every failure of the validation call, never another error
\* status, and a 200 carries the requested id.
C5_GetSessionNotFound ==
    Served("get")
        => /\ Answer.status \in {200, 404}
           /\ ~last_response.platform_ok => Answer.status = 404
           /\ last_response.req.session_id \notin PlatformSessions
                  => Answer.status = 404
           /\ Answer.status = 200
                  => Answer.session_id = last_response.req.session_id

C5_Witness ==
    /\ Served("get")
    /\ last_response.req.session_id = Fabricated
    /\ Answer.status = 404

\* C6: GET /api/health never ends in an HTTP error: in every server state,
\* with or without a default session, it answers 200 with a status document.
C6_HealthNeverErrors ==
    Served("health")
        => /\ Answer.status = 200
           /\ Answer.environment_info # NoInfo

C6_Witness ==
    /\ Served("health")
    /\ DEFAULT_SESSION_ID = None
    /\ Answer.status = 200

\* the checks the status document reports on configuration, default session
\* and platform client
AllChecksPass(info) ==
    /\ info.api_key_configured.val = "Yes"
    /\ info.application_id_configured.val = "Yes"
    /\ info.default_session_available.val = "Yes"
    /\ info.vonage_client_status.val = "Initialized"

\* C7: the health status is "healthy" only when every reported check passes;
\* with a negative check the status is degraded.
C7_HealthyOnlyIfAllChecksPass ==
    (Served("health") /\ Answer.status = 200 /\ Answer.health_status = "healthy")
        => AllChecksPass(Answer.environment_info)

\* C8: a health request served after create session -> issue credential ->
\* join reports default_session_available = "Yes", whatever the start state.
C8_HealthAfterJoinHasDefault ==
    (Served("health") /\ Answer.status = 200 /\ last_response.in_meeting)
        => Answer.environment_info.default_session_available.val = "Yes"

\* C9: when the platform's create-session call fails, POST /api/sessions/create
\* answers 500 with no success body, has made one platform call, and leaves
\* the default-session pointer as it was.
C9_CreateFailureIs500 ==
    (Served("create") /\ ~last_response.platform_ok)
        => /\ Answer.status = 500
           /\ Answer.session_id = None
           /\ Answer.calls = 1
           /\ DEFAULT_SESSION_ID = last_response.default_before

C9_Witness ==
    /\ Served("create")
    /\ ~last_response.platform_ok
    /\ Answer.status = 500

\* C10: with a required credential unset or empty, start-up stops with the
\* configuration error before the platform client is built, and no request is
\* ever accepted or answered.
C10_MissingCredentialIsFatal ==
    (\E k \in EnvVars : env[k] \in {None, EmptyStr})
        => /\ phase \in {"load_config", "failed"}
           /\ vonage_config = NoConfig
           /\ vonage_video_client = None
           /\ pending = {}
           /\ last_response = NoResponse

C10_Witness ==
    /\ phase = "failed"
    /\ env["VONAGE_PRIVATE_KEY_PATH"] = EmptyStr
    /\ \A k \in EnvVars \ {"VONAGE_PRIVATE_KEY_PATH"} : env[k] = "set"

\* ------------------------------------------- properties of the meeting page
After(names) == last_event.name \in names

MainVisible(d) == d.main_publisher_display # "none"

MiniVisible(d) == d.mini_self_video_display # "none"

\* the page with the screen share stopped and nothing of it left
CameraMainRestored(d) ==
    /\ DisplayMode(d) = "CameraMain"
    /\ MainVisible(d)
    /\ ~MiniVisible(d)
    /\ d.publisher_parent = "main-publisher"
    /\ d.screenPublisher = None
    /\ d.screen_divs = 0

\* C11: whenever the screen container is the main display (camera in the mini
\* self-view), a screen publisher exists and its element is in the container.
C11_ScreenMainHasPublisher ==
    DisplayMode(page) = "ScreenMain"
        => /\ page.screenPublisher # None
           /\ page.screen_divs > 0

\* C12: a screen-share start from the camera view keeps the camera as the main
\* display until the platform has confirmed the publish: while any of its
\* callbacks is outstanding the screen container is not shown and the camera
\* is not in the mini self-view.
C12_ScreenMainOnlyAfterPublish ==
    (pair = "started" /\ Outstanding > 0)
        => /\ DisplayMode(page) = "CameraMain"
           /\ ~MiniVisible(page)
           /\ page.publisher_parent = "main-publisher"

\* C13: after a screen publisher initialization error or a publish error the
\* camera is the main display, the mini self-view and the screen container are
\* hidden, no screen publisher or screen element remains and the toggle
\* control is enabled.
C13_FailedStartRestoresCamera ==
    After({"init_error", "publish_error"})
        => /\ CameraMainRestored(page)
           /\ ~page.btn_disabled

\* C14: from Idle/CameraMain, a toggle that starts sharing successfully
\* followed by a second toggle ends in CameraMain with no screen publisher and
\* no screen element.
C14_TogglePairRestores ==
    pair = "done"
        => /\ DisplayMode(page) = "CameraMain"
           /\ page.screenPublisher = None
           /\ page.screen_divs = 0

\* C15: the toggle control is disabled in every state with a capability check,
\* a publisher initialization or a publish outstanding, and at most one such
\* operation is outstanding at any time.
C15_DisabledWhileInFlight ==
    /\ Outstanding > 0 => page.btn_disabled
    /\ Outstanding <= 1

C15_Witness ==
    /\ screen_pending.publish = 1
    /\ page.btn_disabled

SameExceptStatus(d, e) ==
    [d EXCEPT !.screen_status = ""] = [e EXCEPT !.screen_status = ""]

\* C16: a screen stream ended by the platform-native control (reason
\* mediaStopped) leaves the page as a manual toggle-off from the same state
\* would: camera back as the main display, mini self-view hidden, no screen
\* publisher, no screen element.
C16_NativeStopLikeToggleOff ==
    (After({"screen_stream_destroyed"}) /\ last_event.arg = "mediaStopped"
     /\ before.screenPublisher # None)
        => /\ SameExceptStatus(page, toggleScreenShareStop(before))
           /\ DisplayMode(page) = "CameraMain"

\* C17: after an unsupported capability result, a screen publisher
\* initialization error or a publish error the controller is idle again: the
\* toggle control is enabled, no screen publisher is recorded and no callback
\* is outstanding.
C17_ErrorsReturnToIdle ==
    After({"unsupported", "init_error", "publish_error"})
        => /\ ~page.btn_disabled
           /\ page.screenPublisher = None
           /\ Outstanding = 0

C17_Witness ==
    /\ After({"init_error"})
    /\ ~page.btn_disabled
    /\ before.btn_disabled

\* C18: in every state of the page exactly one of the main-display camera view
\* and the mini self-view is visible, and the camera element is in the one
\* that is.
C18_ExactlyOneSelfView ==
    /\ MainVisible(page) # MiniVisible(page)
    /\ page.publisher_parent =
           IF MainVisible(page) THEN "main-publisher" ELSE "mini-publisher"

\* the camera view was restored by a toggle-off after a failed start had left
\* the mini self-view up
C18_Witness ==
    /\ After({"toggle_stop"})
    /\ MainVisible(page)
    /\ page.screen_divs > 0

RosterSet == {page.subscribers[i] : i \in 1..Len(page.subscribers)}

LiveStreamsOf(c) == {st \in streams : ConnectionOf(st) = c}

EntriesOf(c) ==
    {i \in 1..Len(page.subscribers) : ConnectionOf(page.subscribers[i]) = c}

C21_PlaceholderIffRosterEmpty ==
    conn = "connected" => (page.placeholder <=> page.subscribers = << >>)

\* C22: after a failed connect the coordinator is disconnected, the error is
\* shown on the page, the camera stream is not published and no connect is
\* under way.
C22_ConnectFailureSurfaced ==
    After({"connect_error"})
        => /\ conn = "failed"
           /\ page.connection_error
           /\ ~camera_published

\* C23: when the Leave Meeting click returns control from a connected meeting,
\* every local stream (the camera and, when sharing, the screen) has been
\* unpublished and the room state is discarded.
C23_LeaveTearsDownPublishers ==
    (After({"leave"}) /\ conn = "connected")
        => /\ ~camera_published
           /\ ~screen_live
           /\ page.screenPublisher = None

\* ------------------------------------------------- properties of the chat
LocalEntries == {i \in 1..Len(page.messages) : page.messages[i].local}

IsBlank(t) == \A i \in 1..Len(t) : t[i] = Blank

\* C24: when the relay of a sent message succeeds, the completion callback
\* appends exactly one entry tagged local, whether or not the echo has arrived;
\* the echo, arriving from the local connection, changes nothing; so the
\* transcript holds exactly one local entry per message relayed.
C24_ChatRoundTrip ==
    /\ After({"signal_ok"})
           => \E i \in 1..Len(last_event.arg.sending) :
                  /\ last_event.arg.sending[i].relayed
                  /\ page.messages =
                         Append(before.messages,
                                [sender |-> js_username,
                                 text |-> last_event.arg.sending[i].text,
                                 local |-> TRUE])
    /\ After({"echo"}) => page = before
    /\ Cardinality(LocalEntries) = signals.acked

\* the echo arrived after the entry was shown
C24_Witness ==
    /\ After({"echo"})
    /\ signals.acked = 1
    /\ Len(page.messages) = 1
    /\ page.messages[1] =
           [sender |-> js_username, text |-> <<"h", "i">>, local |-> TRUE]

\* C25: a Send while the input is empty or only whitespace sends no signal and
\* leaves the transcript, and the page, unchanged.
C25_BlankSendRejected ==
    (After({"send"}) /\ IsBlank(before.chat_input))
        => /\ signals = last_event.arg
           /\ page = before

C25_Witness ==
    /\ After({"send"})
    /\ before.chat_input = <<Blank, Blank>>
    /\ signals.sending = << >>

\* C26: an incoming chat signal of the local connection leaves the transcript
\* unchanged; one of another connection with a well-formed payload appends
\* exactly one entry, tagged not local, with the payload's sender and text.
C26_IncomingSignals ==
    /\ After({"echo"}) => page.messages = before.messages
    /\ (After({"signal"}) /\ WellFormed(last_event.arg.event.data))
           => page.messages =
                  Append(before.messages,
                         [sender |-> last_event.arg.event.data.value.sender,
                          text |-> last_event.arg.event.data.value.text,
                          local |-> FALSE])

C26_Witness ==
    /\ After({"signal"})
    /\ WellFormed(last_event.arg.event.data)
    /\ Len(page.messages) = Len(before.messages) + 1
    /\ \E i \in 1..Len(before.messages) : before.messages[i].local

\* C27: an incoming payload that is not valid JSON, or not of the shape
\* {sender: string, text: string}, adds no entry to the transcript.
C27_MalformedDropped ==
    (After({"signal"}) /\ ~WellFormed(last_event.arg.event.data))
        => page.messages = before.messages

\* C30: the chat signal listener is registered before session.connect is
\* called: whenever a connection is under way or established the listener is
\* attached, and every chat signal that arrives finds it.
C30_ListenerBeforeConnect ==
    /\ conn \in {"connecting", "connected", "failed"}
           => Executed("signalListener")
    /\ After({"echo", "signal"}) => Executed("signalListener")

\* session.connect has been called and the 'load' listener is still running
C30_Witness ==
    /\ conn = "connecting"
    /\ load_pc < Loaded
    /\ Executed("signalListener")

\* ---------------------------------------------- properties of the filters
Unavailable ==
    {<<"Publisher not initialized.">>,
     <<"Video filters are not supported in this browser.">>}

\* C28: an apply request made while the camera publisher does not exist or the
\* browser lacks media processor support only sets an unavailable status: no
\* call reaches the platform and the filter state is as it was.
C28_ApplyRejectedWhenUnavailable ==
    (After({"apply_filter"})
     /\ (before.publisher = None \/ ~last_event.arg.support))
        => /\ filter = last_event.arg
           /\ page.status \in Unavailable
           /\ page = updateStatus(before, page.status)

C28_Witness ==
    /\ After({"apply_filter"})
    /\ ~filter.support
    /\ page.status = <<"Video filters are not supported in this browser.">>
    /\ filter.pending = << >>

\* C29: a failed filter application leaves the active filter as it was, issues
\* no filter or publisher operation and changes nothing on the page but the
\* status line, which reports the failure.
C29_FailedApplyKeepsFilter ==
    After({"apply_failed"})
        => /\ filter.active = last_event.arg.active
           /\ Len(filter.pending) = Len(last_event.arg.pending) - 1
           /\ \E type \in FilterTypes :
                  page = updateStatus(before,
                                      <<"Failed to apply", StatusText(type)>>)
           /\ page.publisher # None

\* an application failed while an earlier filter was active
C29_Witness ==
    /\ After({"apply_failed"})
    /\ filter.active = "backgroundBlur"
    /\ page.status = <<"Failed to apply", StatusText("backgroundReplacement")>>

\* ------------------------------------- properties of the roster's order
Without(seq, x) == SelectSeq(seq, LAMBDA e : e # x)

\* C31: every stream-created event appends its entry after the entries
\* already shown, and every stream-destroyed event removes its entry and keeps
\* the others in the order they had.
C31_RosterKeepsArrivalOrder ==
    /\ After({"stream_created"})
           => page.subscribers = Append(before.subscribers, last_event.arg)
    /\ After({"stream_destroyed"})
           => page.subscribers = Without(before.subscribers, last_event.arg)

\* an entry between two others was removed
C31_Witness ==
    /\ After({"stream_destroyed"})
    /\ Len(before.subscribers) = 3
    /\ before.subscribers[2] = last_event.arg
    /\ page.subscribers = <<before.subscribers[1], before.subscribers[3]>>

\* C36: at most one screen publisher and at most one screenPublisherDiv exist,
\* and while no screen publisher is recorded the screen-share container holds
\* no screenPublisherDiv.
C36_AtMostOneScreenElement ==
    /\ page.screen_divs <= 1
    /\ page.screenPublisher = None => page.screen_divs = 0

\* ----------------------------------------- properties of the status lines
TransientStatus ==
    {<<"Applying", StatusText(type)>> : type \in FilterTypes}
        \cup {<<"Clearing filter...">>}

Checking == "Checking screen sharing capability..."

\* C32: when the callback of a filter apply, a filter clear or a screen-share
\* start is delivered, the operation's status line shows a terminal message;
\* with no operation outstanding neither status line shows 'Applying',
\* 'Clearing' or 'Checking'.
C32_TerminalStatus ==
    /\ After({"apply_ok", "apply_failed", "clear_ok", "clear_failed"})
           => page.status \notin TransientStatus
    /\ filter.pending = << >> => page.status \notin TransientStatus
    /\ After({"unsupported", "init_error", "publish_ok", "publish_error"})
           => page.screen_status # Checking
    /\ Outstanding = 0 => page.screen_status # Checking

\* a clear failed after a screen-share start had failed
C32_Witness ==
    /\ After({"clear_failed"})
    /\ before.status = <<"Clearing filter...">>
    /\ page.status = <<"Failed to clear filter">>
    /\ page.screen_status = "Failed to publish screen"

\* ------------------------------------------ properties of session creation
\* C35: once start-up has completed no step of a request handler changes
\* DEFAULT_SESSION_ID, whatever the request and whether it succeeds or fails.
C35_HandlersKeepDefault ==
    [][phase = "serving" => DEFAULT_SESSION_ID' = DEFAULT_SESSION_ID]_vars

\* a create request succeeded and the pointer is what it was, not the new id
C35_Witness ==
    /\ Served("create")
    /\ Answer.status = 200
    /\ last_response.default_before = DEFAULT_SESSION_ID
    /\ Truthy(DEFAULT_SESSION_ID)
    /\ Answer.session_id # DEFAULT_SESSION_ID

\* C33: a session created for a request is asked of the platform with the
\* media mode the request supplies, and with 'routed' when it supplies none.
C33_MediaModeOfRequest ==
    (Served("create") /\ Answer.status = 200)
        => Answer.media_mode =
               IF last_response.req.media_mode = None THEN "routed"
               ELSE last_response.req.media_mode

\* --------------------------------------------- properties of the app's visits
AppRequests == {r \in pending : r.owner = "app"}

\* the session id of the token request the app is waiting on
RequestedTokenFor ==
    {r.session_id : r \in AppRequests}
        \cup (IF client_inbox = NoResponse THEN {}
              ELSE {client_inbox.req.session_id})

\* C34: current_meeting is set only with a credential issued for its own
\* session id, after that session was created or validated; the app asks for
\* a credential only for a session the platform has; and after a failed step
\* or a blank session id nothing more is requested and current_meeting stays
\* unset.
C34_MeetingOnlyAfterCredential ==
    /\ InMeeting
           => /\ current_meeting.token # NoToken
              /\ current_meeting.token.session_id = current_meeting.session_id
              /\ current_meeting.session_id \in PlatformSessions
              /\ session_state.default_session_id = current_meeting.session_id
    /\ client_pc = "await_token"
           => /\ RequestedTokenFor \subseteq PlatformSessions
              /\ RequestedTokenFor = {session_state.default_session_id}
    /\ (client_pc = "idle" /\ ~InMeeting) => AppRequests = {}
    /\ (After({"join"}) /\ IsBlank(last_event.arg) /\ client_pc = "idle")
           => ~InMeeting

\* a meeting joined through a padded session id
C34_Witness ==
    /\ InMeeting
    /\ After({"join"})
    /\ last_event.arg = <<Blank, SessionIdOf(1), Blank>>
    /\ current_meeting.session_id = SessionIdOf(1)

\* C37: after Leave Meeting, whether the session-details request succeeded or
\* failed, current_meeting is cleared and last_session_details is the details
\* of the session just left or an error record.
C37_LeaveEndsVisit ==
    (After({"leave"}) /\ client_pc = "idle")
        => /\ ~InMeeting
           /\ session_state.last_session_details
                  \in {[session_id |-> last_event.arg.session_id,
                        error |-> None],
                       [session_id |-> None, error |-> "HTTPError"]}

\* the details request failed on leaving a second meeting, after the first
\* visit had left the details of another session
C37_Witness ==
    /\ After({"leave"})
    /\ client_pc = "idle"
    /\ last_event.arg.previous.error = None
    /\ last_event.arg.previous.session_id \notin {None, last_event.arg.session_id}
    /\ session_state.last_session_details.error = "HTTPError"

====
